---- MODULE Spec2Model ----
(***************************************************************************)
(* Versioned ingestion and cached hybrid retrieval of the knowledge base.  *)
(*                                                                         *)
(* The request-handling tier (app/api/documents.py, search_service.py)     *)
(* and the Celery worker tier (app/tasks/document_tasks.py) are separate   *)
(* operating-system processes that share the database and the upload      *)
(* directory.  The module-level dictionary _search_cache exists once per   *)
(* process, so the model keeps one cache per tier.                         *)
(***************************************************************************)
EXTENDS Integers, Sequences, FiniteSets, TLC

(* ------------------------------ bounds -------------------------------- *)
NumFilenames == 2
NumContents == 2
MaxUploads == 3
MaxFaults == 1
MaxTopK == 2
WorkerConcurrency == 1
MaxTokens == 4
MaxChunkSize == 3
MaxOverlap == 3
MaxChunks == 6
MaxMatched == 2
MaxRequirements == 2

(* ------------------------- program constants -------------------------- *)
cache_max_size == 100
max_retries == 3
retry_base == 60
completeness_top_k == 3
coverage_threshold == 7

Filenames == 1..NumFilenames
Contents == 1..NumContents
UploadIds == 1..MaxUploads
Requests == {1, 2}
Tiers == {"api", "worker"}
Queries == {1}
TopKs == 1..MaxTopK

\* the arguments every caller leaves at their defaults (search_service.py
\* 43-45; api/search.py 33, qa_service.py 51, completeness_service.py 36)
default_recency_weight == 3
default_similarity_threshold == 0

VARIABLES
    documents,      \* rows of table documents
    document_chunks,\* rows of table document_chunks
    next_document_id,
    next_chunk_id,
    next_upload_id, \* uuid4() of the next upload
    files,          \* staged files present under /app/uploads
    up,             \* position of each in-flight upload_document call
    response,       \* last response of each request slot
    tasks,          \* Celery tasks by task id
    search_cache,   \* _search_cache of each process
    srch,           \* position of the in-flight semantic_search call
    answered,       \* answers given by semantic_search since the last
                    \* ingestion commit or cache invalidation, the latest
                    \* for each key
    stale,          \* keys cached by the request tier before the latest
                    \* commit that changed the active set
    faults,         \* injected collaborator failures so far
    lineage,        \* per filename: uploads seen since the filename was new
    call            \* the call of a service function in progress

vars == <<documents, document_chunks, next_document_id, next_chunk_id,
          next_upload_id, files, up, response, tasks, search_cache, srch,
          answered, stale, faults, lineage, call>>

NULL == 0

\* no service function is being called
NoCall == [fn |-> "none"]

(* ----------------------------- database ------------------------------- *)
\* Document(...) constructor, documents.py 137-150 and 194-205
Document(id, filename, content_hash, version) ==
    [id |-> id, filename |-> filename, content_hash |-> content_hash,
     version |-> version, is_active |-> TRUE, replaced_at |-> NULL]

\* documents.py 124-125: soft delete of the old document
DeactivateDocument_keep(d) == d
DeactivateDocument(d) == [d EXCEPT !.is_active = FALSE, !.replaced_at = 1]

\* documents.py 128-134: soft delete of the old document's active chunks
DeactivateChunks(cs, document_id) ==
    {IF c.document_id = document_id /\ c.is_active
        THEN [c EXCEPT !.is_active = FALSE, !.replaced_at = 1]
        ELSE c : c \in cs}

\* documents.py 98-101: the active documents of a filename
ActiveByFilename(docs, filename) ==
    {d \in docs : d.filename = filename /\ d.is_active}

\* documents.py 173-176: the active documents with a content hash
ActiveByContent_inactive(docs, content_hash) ==
    {d \in docs : d.content_hash = content_hash /\ ~d.is_active}
ActiveByContent(docs, content_hash) ==
    {d \in docs : d.content_hash = content_hash /\ d.is_active}

\* documents.py 106: content unchanged
SameContent_never(d, content_hash) == FALSE
SameContent(d, content_hash) == d.content_hash = content_hash

\* documents.py 141: the version of a new version
NextVersion_same(existing) == existing.version
NextVersion(existing) == existing.version + 1

NoResponse == [status |-> "none", document_id |-> NULL, task_id |-> NULL]
\* documents.py 101: .first() found nothing
NoDocument == [id |-> NULL, filename |-> NULL, content_hash |-> NULL,
               version |-> 0, is_active |-> FALSE, replaced_at |-> NULL]
IdleUpload == [pc |-> "idle", upload_id |-> NULL, filename |-> NULL,
               content_hash |-> NULL, existing |-> NoDocument,
               document_id |-> NULL,
               cleared |-> FALSE]

\* pc of the step that follows the NewVersion commit (documents.py 153-157)
AfterVersionCommit_enqueue == "enqueue"
AfterVersionCommit == "clear"

(* --------------------------- search cache ----------------------------- *)
\* search_service.py 23-26: md5 of "query|top_k|use_recency"; the formatted
\* string determines the triple, so the triple stands for the digest
get_cache_key(query, top_k, use_recency) == <<query, top_k, use_recency>>

\* search_service.py 296-300 (the definition in force): _search_cache = {}
clear_search_cache == << >>

CacheKeys(cache) == {cache[i].key : i \in 1..Len(cache)}
\* search_service.py 66: cache_key in _search_cache
CacheHas(cache, key) == key \in CacheKeys(cache)
\* search_service.py 68: _search_cache[cache_key]
CacheGet(cache, key) ==
    cache[CHOOSE i \in 1..Len(cache) : cache[i].key = key].value
\* search_service.py 171-174: evict the first key when full, then assign
CachePut_late(cache, key, value) ==
    LET kept == IF Len(cache) > cache_max_size THEN Tail(cache) ELSE cache
    IN  Append(kept, [key |-> key, value |-> value])
CachePut(cache, key, value) ==
    LET kept == IF Len(cache) >= cache_max_size THEN Tail(cache) ELSE cache
    IN  IF key \in CacheKeys(kept)
        THEN [i \in 1..Len(kept) |->
                 IF kept[i].key = key THEN [key |-> key, value |-> value]
                                      ELSE kept[i]]
        ELSE Append(kept, [key |-> key, value |-> value])

(* ------------------------- upload_document ---------------------------- *)
\* documents.py 223-236: both exception handlers remove the staged file
Cleanup_skip(fs, upload_id) == fs
Cleanup(fs, upload_id) == fs \ {upload_id}

Bump(f, isdup) ==
    [lineage EXCEPT ![f].n = @ + 1, ![f].dup = @ + (IF isdup THEN 1 ELSE 0)]

\* documents.py 49-95: the upload is streamed to a fresh staged file and hashed
upload_document_stream(r, filename, content) ==
    /\ up[r].pc = "idle"
    /\ next_upload_id <= MaxUploads
    /\ files' = files \cup {next_upload_id}
    /\ next_upload_id' = next_upload_id + 1
    /\ up' = [up EXCEPT ![r] = [IdleUpload EXCEPT !.pc = "lookup",
                  !.upload_id = next_upload_id, !.filename = filename,
                  !.content_hash = content]]
    /\ response' = [response EXCEPT ![r] = NoResponse]
    /\ UNCHANGED <<call, documents, document_chunks, next_document_id, next_chunk_id,
                   tasks, search_cache, srch, answered, faults, lineage,
                   stale>>

\* documents.py 58-88 and 223-228: oversize (400) or stalled (408) stream;
\* the staged file opened at line 60 and partly written is removed by the
\* HTTPException handler
upload_document_reject(r, status) ==
    /\ up[r].pc = "idle"
    /\ next_upload_id <= MaxUploads
    /\ next_upload_id' = next_upload_id + 1
    /\ files' = Cleanup(files \cup {next_upload_id}, next_upload_id)
    /\ response' = [response EXCEPT ![r] =
                       [NoResponse EXCEPT !.status = status]]
    /\ UNCHANGED <<call, documents, document_chunks, next_document_id, next_chunk_id,
                   up, tasks, search_cache, srch, answered, faults,
                   lineage, stale>>

\* documents.py 97-118: lookup by filename; NoChange answers at once
upload_document_lookup(r) ==
    /\ up[r].pc = "lookup"
    /\ LET u == up[r]
           found == ActiveByFilename(documents, u.filename)
       IN  IF found = {}
           THEN /\ up' = [up EXCEPT ![r].pc = "content"]
                /\ UNCHANGED <<files, response, lineage>>
           ELSE \E d \in found :
                  IF SameContent(d, u.content_hash)
                  THEN /\ files' = files \ {u.upload_id}
                       /\ response' = [response EXCEPT ![r] =
                              [status |-> "no_change", document_id |-> d.id,
                               task_id |-> NULL]]
                       /\ up' = [up EXCEPT ![r] = IdleUpload]
                       /\ UNCHANGED lineage
                  ELSE /\ up' = [up EXCEPT ![r].pc = "version",
                                           ![r].existing = d]
                       /\ lineage' = Bump(u.filename, FALSE)
                       /\ UNCHANGED <<files, response>>
    /\ UNCHANGED <<call, documents, document_chunks, next_document_id, next_chunk_id,
                   next_upload_id, tasks, search_cache, srch, answered, faults,
                   stale>>

\* documents.py 120-154: NewVersion transaction, committed at line 153.  The
\* UPDATE of a row that was deleted meanwhile matches nothing and the flush
\* raises, which the handler at 230-241 turns into a 500 after removing the
\* staged file.
upload_document_version(r) ==
    /\ up[r].pc = "version"
    /\ LET u == up[r]
           rows == {d \in documents : d.id = u.existing.id}
       IN  IF rows = {}
           THEN /\ files' = Cleanup(files, u.upload_id)
                /\ response' = [response EXCEPT ![r] =
                                   [NoResponse EXCEPT !.status = "error_500"]]
                /\ up' = [up EXCEPT ![r] = IdleUpload]
                /\ UNCHANGED <<documents, document_chunks, next_document_id,
                               answered, stale>>
           ELSE /\ documents' =
                      {IF d \in rows THEN DeactivateDocument(d) ELSE d :
                          d \in documents}
                      \cup {Document(next_document_id, u.filename,
                                     u.content_hash, NextVersion(u.existing))}
                /\ document_chunks' =
                      DeactivateChunks(document_chunks, u.existing.id)
                /\ next_document_id' = next_document_id + 1
                /\ up' = [up EXCEPT ![r].pc = AfterVersionCommit,
                                    ![r].document_id = next_document_id]
                /\ answered' = {}
                /\ stale' = CacheKeys(search_cache["api"])
                /\ UNCHANGED <<files, response>>
    /\ UNCHANGED <<call, next_chunk_id, next_upload_id, tasks, search_cache, srch,
                   faults, lineage>>

\* documents.py 156-158: clear_search_cache() in the request-handling process
upload_document_clear(r) ==
    /\ up[r].pc = "clear"
    /\ search_cache' = [search_cache EXCEPT !["api"] = clear_search_cache]
    /\ up' = [up EXCEPT ![r].pc = "enqueue", ![r].cleared = TRUE]
    /\ answered' = {}
    /\ stale' = {}
    /\ UNCHANGED <<call, documents, document_chunks, next_document_id, next_chunk_id,
                   next_upload_id, files, response, tasks, srch, faults,
                   lineage>>

\* documents.py 172-191: lookup by content; Duplicate answers at once
upload_document_content(r) ==
    /\ up[r].pc = "content"
    /\ LET u == up[r]
           found == ActiveByContent(documents, u.content_hash)
       IN  IF found = {}
           THEN /\ up' = [up EXCEPT ![r].pc = "create"]
                /\ lineage' = Bump(u.filename, FALSE)
                /\ UNCHANGED <<files, response>>
           ELSE \E d \in found :
                  /\ files' = files \ {u.upload_id}
                  /\ response' = [response EXCEPT ![r] =
                         [status |-> "duplicate", document_id |-> d.id,
                          task_id |-> NULL]]
                  /\ up' = [up EXCEPT ![r] = IdleUpload]
                  /\ lineage' = Bump(u.filename, TRUE)
    /\ UNCHANGED <<call, documents, document_chunks, next_document_id, next_chunk_id,
                   next_upload_id, tasks, search_cache, srch, answered, faults,
                   stale>>

\* documents.py 193-209: NewDocument, version 1, committed at line 208
upload_document_create(r) ==
    /\ up[r].pc = "create"
    /\ documents' = documents \cup
           {Document(next_document_id, up[r].filename, up[r].content_hash, 1)}
    /\ next_document_id' = next_document_id + 1
    /\ up' = [up EXCEPT ![r].pc = "enqueue",
                        ![r].document_id = next_document_id]
    /\ answered' = {}
    /\ UNCHANGED <<call, document_chunks, next_chunk_id, next_upload_id, files,
                   response, tasks, search_cache, srch, faults, lineage, stale>>

\* A task as process_document.delay(...) leaves it in the queue; phase counts
\* the steps the current attempt has finished: 1 text extraction, 2 chunking
\* with metadata, 3 embedding generation, 4 persistence, 5 all of the body
NewTask(document_id) ==
    [state |-> "PENDING", pc |-> "queued", progress |-> 0, retries |-> 0,
     document_id |-> document_id, phase |-> 0, countdown |-> 0]
NoTask == [state |-> "NONE", pc |-> "none", progress |-> 0, retries |-> 0,
           document_id |-> NULL, phase |-> 0, countdown |-> 0]

\* documents.py 162-170 and 213-221: process_document.delay and the response;
\* the task id stands for the staged file path it carries
upload_document_enqueue(r) ==
    /\ up[r].pc = "enqueue"
    /\ tasks' = [tasks EXCEPT ![up[r].upload_id] = NewTask(up[r].document_id)]
    /\ response' = [response EXCEPT ![r] =
           [status |-> IF up[r].existing.id = NULL THEN "processing"
                                                ELSE "updated",
            document_id |-> up[r].document_id,
            task_id |-> up[r].upload_id]]
    /\ up' = [up EXCEPT ![r] = IdleUpload]
    /\ UNCHANGED <<call, documents, document_chunks, next_document_id, next_chunk_id,
                   next_upload_id, files, search_cache, srch, answered, faults,
                   lineage, stale>>

\* documents.py 163 and 214 with 230-241: process_document.delay raises (the
\* broker cannot be reached); the handler removes the staged file and
\* answers 500, the Document committed at 153 or 208 stays
upload_document_enqueue_fails(r) ==
    /\ up[r].pc = "enqueue"
    /\ faults < MaxFaults
    /\ faults' = faults + 1
    /\ files' = Cleanup(files, up[r].upload_id)
    /\ response' = [response EXCEPT ![r] =
                       [NoResponse EXCEPT !.status = "error_500"]]
    /\ up' = [up EXCEPT ![r] = IdleUpload]
    /\ UNCHANGED <<call, documents, document_chunks, next_document_id, next_chunk_id,
                   next_upload_id, tasks, search_cache, srch, answered,
                   lineage, stale>>

upload_document(r) ==
    \/ \E f \in Filenames, c \in Contents : upload_document_stream(r, f, c)
    \/ \E s \in {"error_400", "error_408"} : upload_document_reject(r, s)
    \/ upload_document_lookup(r)
    \/ upload_document_version(r)
    \/ upload_document_clear(r)
    \/ upload_document_content(r)
    \/ upload_document_create(r)
    \/ upload_document_enqueue(r)

(* ------------------------- delete_document ---------------------------- *)
\* documents.py 287-303 with the cascade of database.py 49 and 60
delete_document(document_id) ==
    /\ \E d \in documents : d.id = document_id
    /\ documents' = {d \in documents : d.id # document_id}
    /\ document_chunks' =
           {c \in document_chunks : c.document_id # document_id}
    /\ lineage' = [f \in Filenames |->
           IF \E d \in documents : d.id = document_id /\ d.filename = f
           THEN [lineage[f] EXCEPT !.deleted = TRUE] ELSE lineage[f]]
    /\ UNCHANGED <<call, next_document_id, next_chunk_id, next_upload_id, files, up,
                   response, tasks, search_cache, srch, answered, faults,
                   stale>>

(* ------------------------- process_document --------------------------- *)
\* Text of a content: the number of chunks chunk_text_enhanced returns for it
\* (document_tasks.py 90-93) and the recency score of each chunk, in tenths
ChunkCount(content) == IF content % 2 = 1 THEN 1 ELSE 2
RecencyScore(content, chunk_index) ==
    CASE (content + chunk_index) % 3 = 0 -> 1
      [] (content + chunk_index) % 3 = 1 -> 9
      [] OTHER -> 5

\* document_tasks.py 67, 80, 95, 101 and 131: the percentage update_state
\* reports with each step name
Checkpoint_late(step) ==
    CASE step = "extracting_text" -> 0
      [] step = "chunking_with_metadata" -> 10
      [] step = "generating_embeddings" -> 30
      [] step = "saving_to_database" -> 50
      [] step = "complete" -> 100
Checkpoint(step) ==
    CASE step = "extracting_text" -> 10
      [] step = "chunking_with_metadata" -> 30
      [] step = "generating_embeddings" -> 50
      [] step = "saving_to_database" -> 80
      [] step = "complete" -> 100

Running == {"begin", "extract", "chunk", "embed", "save", "clear", "cleanup",
            "except"}

\* document_tasks.py 116: the flag of a chunk row being saved
NewChunkActive(document) == TRUE

\* document_tasks.py 105-119: the DocumentChunk rows added to the session for
\* document d, ids taken from first_id on
NewChunks(d, first_id) ==
    {[id |-> first_id + i, document_id |-> d.id, chunk_index |-> i,
      recency_score |-> RecencyScore(d.content_hash, i),
      is_active |-> NewChunkActive(d), version |-> d.version,
      replaced_at |-> NULL] : i \in 0..(ChunkCount(d.content_hash) - 1)}

\* document_tasks.py 164: what db.rollback() leaves of the rows added to the
\* session and not committed
Rollback_keep(pending) == pending
Rollback(pending) == {}

\* The worker takes the task from the queue, first-time deliveries in the
\* order of their enqueueing; task_track_started (celery_app.py 27)
process_document_start(t) ==
    /\ tasks[t].pc = "queued"
    /\ Cardinality({o \in UploadIds : tasks[o].pc \in Running})
           < WorkerConcurrency
    /\ \A o \in UploadIds : tasks[o].state = "PENDING" => t <= o
    /\ tasks' = [tasks EXCEPT ![t].state = "STARTED", ![t].pc = "begin",
                              ![t].progress = 0, ![t].phase = 0]
    /\ UNCHANGED <<call, documents, document_chunks, next_document_id, next_chunk_id,
                   next_upload_id, files, up, response, search_cache, srch,
                   answered, faults, lineage, stale>>

\* document_tasks.py 67
process_document_progress(t) ==
    /\ tasks[t].pc = "begin"
    /\ tasks' = [tasks EXCEPT ![t].state = "PROGRESS",
                              ![t].progress = Checkpoint("extracting_text"),
                              ![t].pc = "extract"]
    /\ UNCHANGED <<call, documents, document_chunks, next_document_id, next_chunk_id,
                   next_upload_id, files, up, response, search_cache, srch,
                   answered, faults, lineage, stale>>

\* document_tasks.py 69-80: extract_text reads the staged file, the document
\* row is fetched, raw_content committed; a missing file or row raises
process_document_extract(t) ==
    /\ tasks[t].pc = "extract"
    /\ IF /\ t \in files
          /\ \E d \in documents : d.id = tasks[t].document_id
       THEN tasks' = [tasks EXCEPT
                         ![t].progress = Checkpoint("chunking_with_metadata"),
                         ![t].phase = 1, ![t].pc = "chunk"]
       ELSE tasks' = [tasks EXCEPT ![t].pc = "except"]
    /\ UNCHANGED <<call, documents, document_chunks, next_document_id, next_chunk_id,
                   next_upload_id, files, up, response, search_cache, srch,
                   answered, faults, lineage, stale>>

\* document_tasks.py 70, 90, 99 and 121: the extraction (an unreadable file,
\* an unsupported type), the chunking, the embedding provider or the commit
\* raises; what failed one attempt of a job may fail its later attempts too
process_document_raises(t) ==
    /\ tasks[t].pc \in {"extract", "chunk", "embed", "save"}
    /\ faults < MaxFaults \/ tasks[t].retries > 0
    /\ faults' = IF tasks[t].retries = 0 THEN faults + 1 ELSE faults
    /\ tasks' = [tasks EXCEPT ![t].pc = "except"]
    /\ document_chunks' =
           IF tasks[t].pc = "save"
           THEN document_chunks \cup
                Rollback(UNION {NewChunks(d, next_chunk_id) :
                           d \in {e \in documents :
                                     e.id = tasks[t].document_id}})
           ELSE document_chunks
    /\ UNCHANGED <<call, documents, next_document_id, next_chunk_id,
                   next_upload_id, files, up, response, search_cache, srch,
                   answered, lineage, stale>>

\* document_tasks.py 82-95
process_document_chunk(t) ==
    /\ tasks[t].pc = "chunk"
    /\ tasks' = [tasks EXCEPT
                    ![t].progress = Checkpoint("generating_embeddings"),
                    ![t].phase = 2, ![t].pc = "embed"]
    /\ UNCHANGED <<call, documents, document_chunks, next_document_id, next_chunk_id,
                   next_upload_id, files, up, response, search_cache, srch,
                   answered, faults, lineage, stale>>

\* document_tasks.py 97-101: the embedding provider answers
process_document_embed(t) ==
    /\ tasks[t].pc = "embed"
    /\ tasks' = [tasks EXCEPT
                    ![t].progress = Checkpoint("saving_to_database"),
                    ![t].phase = 3, ![t].pc = "save"]
    /\ UNCHANGED <<call, documents, document_chunks, next_document_id, next_chunk_id,
                   next_upload_id, files, up, response, search_cache, srch,
                   answered, faults, lineage, stale>>

\* document_tasks.py 103-121: one DocumentChunk per chunk, one commit; the
\* foreign key rejects the rows of a document deleted meanwhile
process_document_save(t) ==
    /\ tasks[t].pc = "save"
    /\ LET rows == {d \in documents : d.id = tasks[t].document_id}
       IN  IF rows = {}
           THEN /\ tasks' = [tasks EXCEPT ![t].pc = "except"]
                /\ UNCHANGED <<document_chunks, next_chunk_id, answered,
                               stale>>
           ELSE \E d \in rows :
                  LET n == ChunkCount(d.content_hash)
                  IN  /\ document_chunks' = document_chunks \cup
                            NewChunks(d, next_chunk_id)
                      /\ next_chunk_id' = next_chunk_id + n
                      /\ tasks' = [tasks EXCEPT ![t].pc = "clear",
                                                ![t].phase = 4]
                      /\ answered' = {}
                      /\ stale' = CacheKeys(search_cache["api"])
    /\ UNCHANGED <<call, documents, next_document_id, next_upload_id, files, up,
                   response, search_cache, srch, faults, lineage>>

\* The process whose _search_cache process_document clears
\* (document_tasks.py 13 and 124: the call runs in the Celery worker)
TaskTier == "worker"

\* document_tasks.py 123-125
process_document_clear(t) ==
    /\ tasks[t].pc = "clear"
    /\ search_cache' = [search_cache EXCEPT ![TaskTier] = clear_search_cache]
    /\ tasks' = [tasks EXCEPT ![t].pc = "cleanup"]
    /\ answered' = {}
    /\ stale' = stale \cap CacheKeys(search_cache'["api"])
    /\ UNCHANGED <<call, documents, document_chunks, next_document_id, next_chunk_id,
                   next_upload_id, files, up, response, srch, faults, lineage>>

\* document_tasks.py 127-156
process_document_finish(t) ==
    /\ tasks[t].pc = "cleanup"
    /\ files' = files \ {t}
    /\ tasks' = [tasks EXCEPT ![t].state = "SUCCESS",
                              ![t].progress = Checkpoint("complete"),
                              ![t].phase = 5, ![t].pc = "done"]
    /\ UNCHANGED <<call, documents, document_chunks, next_document_id, next_chunk_id,
                   next_upload_id, up, response, search_cache, srch, answered,
                   faults, lineage, stale>>

\* document_tasks.py 172: the delay of the retry, in seconds
Countdown_fixed(retries) == retry_base
Countdown(retries) == retry_base * 2 ^ retries

\* document_tasks.py 167: the failure that removes the staged file
RemoveOnFailure_always(retries) == TRUE
RemoveOnFailure(retries) == retries >= max_retries

\* document_tasks.py 158-172: rollback, then self.retry, which requeues the
\* task after the countdown or, with the retries used up, re-raises exc
process_document_except(t) ==
    /\ tasks[t].pc = "except"
    /\ files' = IF RemoveOnFailure(tasks[t].retries) THEN files \ {t}
                                                      ELSE files
    /\ IF tasks[t].retries >= max_retries
       THEN /\ tasks' = [tasks EXCEPT ![t].state = "FAILURE",
                                      ![t].progress = 0, ![t].phase = 0,
                                      ![t].pc = "done"]
       ELSE /\ tasks' = [tasks EXCEPT ![t].state = "RETRY",
                                      ![t].progress = 0, ![t].phase = 0,
                                      ![t].retries = @ + 1,
                                      ![t].countdown =
                                          Countdown(tasks[t].retries),
                                      ![t].pc = "queued"]
    /\ UNCHANGED <<call, documents, document_chunks, next_document_id, next_chunk_id,
                   next_upload_id, up, response, search_cache, srch, answered,
                   faults, lineage, stale>>

\* document_tasks.py 128-129 with 158-172: os.remove raises on the staged
\* file after the chunks were committed at 121; the file stays and the
\* handler retries the task
process_document_remove_raises(t) ==
    /\ tasks[t].pc = "cleanup"
    /\ faults < MaxFaults
    /\ faults' = faults + 1
    /\ tasks' = [tasks EXCEPT ![t].pc = "except"]
    /\ UNCHANGED <<call, documents, document_chunks, next_document_id, next_chunk_id,
                   next_upload_id, files, up, response, search_cache, srch,
                   answered, lineage, stale>>

process_document(t) ==
    \/ process_document_start(t)
    \/ process_document_progress(t)
    \/ process_document_extract(t)
    \/ process_document_raises(t)
    \/ process_document_chunk(t)
    \/ process_document_embed(t)
    \/ process_document_save(t)
    \/ process_document_clear(t)
    \/ process_document_finish(t)
    \/ process_document_except(t)

(* -------------------------- get_task_status --------------------------- *)
\* api/tasks.py 27-60: the status reported for the state the result backend
\* holds; an id the backend does not know reads as PENDING
get_task_status(t) ==
    LET state == tasks[t].state
    IN  CASE state \in {"NONE", "PENDING"} ->
                 [status |-> "pending", progress |-> 0]
          [] state = "PROGRESS" ->
                 [status |-> "processing", progress |-> tasks[t].progress]
          [] state = "SUCCESS" -> [status |-> "completed", progress |-> 100]
          [] state = "FAILURE" -> [status |-> "failed", progress |-> NULL]
          [] state = "STARTED" -> [status |-> "started", progress |-> NULL]
          [] state = "RETRY" -> [status |-> "retry", progress |-> NULL]

(* -------------------------- semantic_search --------------------------- *)
\* search_service.py 96: 1 - cosine distance between the query embedding and
\* the chunk embedding, in tenths; the embeddings are the provider's
Similarity(query, content, chunk_index) ==
    4 + ((3 * content + 5 * chunk_index + query) % 5)

\* search_service.py 97-101: the join restricted to active chunks of active
\* documents, with the similarity column
ActiveRows_chunk_flag_only(docs, cs, query) ==
    {[chunk_id |-> c.id, chunk_index |-> c.chunk_index,
      document_id |-> d.id, recency_score |-> c.recency_score,
      filename |-> d.filename, version |-> d.version,
      similarity |-> Similarity(query, d.content_hash, c.chunk_index)] :
        <<c, d>> \in {p \in cs \X docs :
            p[1].document_id = p[2].id /\ p[1].is_active}}
ActiveRows(docs, cs, query) ==
    {[chunk_id |-> c.id, chunk_index |-> c.chunk_index,
      document_id |-> d.id, recency_score |-> c.recency_score,
      filename |-> d.filename, version |-> d.version,
      similarity |-> Similarity(query, d.content_hash, c.chunk_index)] :
        <<c, d>> \in {p \in cs \X docs :
            p[1].document_id = p[2].id /\ p[1].is_active /\ p[2].is_active}}

\* search_service.py 102: ORDER BY distance; rows at the same distance are
\* taken in primary-key order
Nearer(a, b) ==
    \/ a.similarity > b.similarity
    \/ a.similarity = b.similarity /\ a.chunk_id < b.chunk_id

RECURSIVE OrderByDistance(_)
OrderByDistance(rows) ==
    IF rows = {} THEN << >>
    ELSE LET first == CHOOSE a \in rows : \A b \in rows \ {a} : Nearer(a, b)
         IN  <<first>> \o OrderByDistance(rows \ {first})

\* search_service.py 79
SearchLimit_exact(top_k, use_recency_boost) == top_k
SearchLimit(top_k, use_recency_boost) ==
    IF use_recency_boost THEN top_k * 3 ELSE top_k

\* search_service.py 103: LIMIT
Limit(seq, n) == SubSeq(seq, 1, IF Len(seq) < n THEN Len(seq) ELSE n)

\* search_service.py 126-134, in hundredths (recency_weight in tenths)
HybridScore(row, use_recency_boost, recency_weight) ==
    IF use_recency_boost
    THEN row.similarity * (10 - recency_weight)
         + row.recency_score * recency_weight
    ELSE row.similarity * 10

\* search_service.py 117-158: rows at or above the threshold, scored
RECURSIVE BuildResults(_, _, _, _)
BuildResults(rows, use_recency_boost, recency_weight, similarity_threshold) ==
    IF rows = << >> THEN << >>
    ELSE LET row == Head(rows)
             rest == BuildResults(Tail(rows), use_recency_boost,
                                  recency_weight, similarity_threshold)
         IN  IF row.similarity < similarity_threshold
             THEN rest
             ELSE <<[chunk_id |-> row.chunk_id,
                     document_id |-> row.document_id,
                     filename |-> row.filename,
                     version |-> row.version,
                     similarity |-> row.similarity,
                     recency_score |-> row.recency_score,
                     hybrid_score |-> HybridScore(row, use_recency_boost,
                                                  recency_weight)]>> \o rest

\* search_service.py 165: list.sort(key=hybrid_score, reverse=True) is stable
RECURSIVE InsertByScore(_, _)
InsertByScore(sorted, x) ==
    IF sorted = << >> THEN <<x>>
    ELSE IF Head(sorted).hybrid_score >= x.hybrid_score
         THEN <<Head(sorted)>> \o InsertByScore(Tail(sorted), x)
         ELSE <<x>> \o sorted

RECURSIVE SortByHybridScore(_)
SortByHybridScore(results) ==
    IF results = << >> THEN << >>
    ELSE InsertByScore(SortByHybridScore(SubSeq(results, 1, Len(results) - 1)),
                       results[Len(results)])

IdleSearch == [pc |-> "idle", query |-> NULL, top_k |-> 0,
               use_recency_boost |-> FALSE, recency_weight |-> 0,
               similarity_threshold |-> 0]

\* The caller of semantic_search receives results for the call with key,
\* recency_weight and similarity_threshold, after the store was asked for
\* search_limit rows and returned the chunks fetched (NULL and none when the
\* store was not asked); of the answers to one key the latest is kept
Returned(key, recency_weight, similarity_threshold, search_limit, fetched, results) ==
    {a \in answered : a.key # key}
        \cup {[key |-> key, recency_weight |-> recency_weight,
               similarity_threshold |-> similarity_threshold,
               search_limit |-> search_limit, fetched |-> fetched,
               results |-> results]}

\* search_service.py 78-106: the rows the store returns
StoreRows(docs, cs, query, top_k, use_recency_boost) ==
    Limit(OrderByDistance(ActiveRows(docs, cs, query)),
          SearchLimit(top_k, use_recency_boost))

\* search_service.py 115-166: scored, sorted, truncated to top_k
FinalResults(rows, top_k, use_recency_boost, recency_weight, similarity_threshold) ==
    Limit(SortByHybridScore(BuildResults(rows, use_recency_boost,
                                         recency_weight,
                                         similarity_threshold)),
          top_k)

\* search_service.py 62-68: the cache lookup, answered at once on a hit;
\* line 71 awaits the embedding provider on a miss
semantic_search_begin(query, top_k, use_recency_boost, recency_weight, similarity_threshold) ==
    /\ srch.pc = "idle"
    /\ LET key == get_cache_key(query, top_k, use_recency_boost)
       IN  IF CacheHas(search_cache["api"], key)
           THEN /\ answered' =
                       Returned(key, recency_weight, similarity_threshold,
                                NULL, << >>,
                                CacheGet(search_cache["api"], key))
                /\ UNCHANGED srch
           ELSE /\ srch' = [pc |-> "embedding", query |-> query,
                            top_k |-> top_k,
                            use_recency_boost |-> use_recency_boost,
                            recency_weight |-> recency_weight,
                            similarity_threshold |-> similarity_threshold]
                /\ UNCHANGED answered
    /\ UNCHANGED <<call, documents, document_chunks, next_document_id, next_chunk_id,
                   next_upload_id, files, up, response, tasks, search_cache,
                   faults, lineage, stale>>

\* search_service.py 72-176: the store query, ranking and cache insertion run
\* without suspension once the embedding has arrived
semantic_search_query ==
    /\ srch.pc = "embedding"
    /\ LET key == get_cache_key(srch.query, srch.top_k, srch.use_recency_boost)
           rows == StoreRows(documents, document_chunks, srch.query,
                             srch.top_k, srch.use_recency_boost)
           final_results ==
               FinalResults(rows, srch.top_k, srch.use_recency_boost,
                            srch.recency_weight, srch.similarity_threshold)
           search_limit == SearchLimit(srch.top_k, srch.use_recency_boost)
           fetched == [i \in 1..Len(rows) |-> rows[i].chunk_id]
       IN  IF rows = << >>
           THEN /\ answered' = Returned(key, srch.recency_weight,
                                        srch.similarity_threshold,
                                        search_limit, fetched, << >>)
                /\ UNCHANGED <<search_cache, stale>>
           ELSE /\ search_cache' = [search_cache EXCEPT !["api"] =
                                       CachePut(@, key, final_results)]
                /\ answered' = Returned(key, srch.recency_weight,
                                        srch.similarity_threshold,
                                        search_limit, fetched, final_results)
                /\ stale' = stale \cap
                       (CacheKeys(search_cache'["api"]) \ {key})
    /\ srch' = IdleSearch
    /\ UNCHANGED <<call, documents, document_chunks, next_document_id, next_chunk_id,
                   next_upload_id, files, up, response, tasks, faults, lineage>>

\* search_service.py 71 and 178-180: the embedding provider raises and the
\* call answers an empty list
semantic_search_error ==
    /\ srch.pc = "embedding"
    /\ faults < MaxFaults
    /\ faults' = faults + 1
    /\ answered' = Returned(get_cache_key(srch.query, srch.top_k,
                                          srch.use_recency_boost),
                            srch.recency_weight, srch.similarity_threshold,
                            NULL, << >>, << >>)
    /\ srch' = IdleSearch
    /\ UNCHANGED <<call, documents, document_chunks, next_document_id, next_chunk_id,
                   next_upload_id, files, up, response, tasks, search_cache,
                   lineage, stale>>

semantic_search ==
    \/ \E q \in Queries, k \in TopKs :
          semantic_search_begin(q, k, TRUE, default_recency_weight,
                                default_similarity_threshold)
    \/ semantic_search_query
    \/ semantic_search_error

\* search_service.py 39-46: semantic_search as a service function, called
\* with or without the recency boost and with the default or another
\* <<recency_weight, similarity_threshold>> (both in tenths)
Tunings == {<<default_recency_weight, default_similarity_threshold>>,
            <<7, 7>>}
ServiceQueries == {2}

semantic_search_call ==
    \/ \E q \in ServiceQueries, k \in TopKs, b \in BOOLEAN, a \in Tunings :
          semantic_search_begin(q, k, b, a[1], a[2])
    \/ semantic_search_query
    \/ semantic_search_error

(* ------------------------- chunking_service --------------------------- *)
Max(a, b) == IF a >= b THEN a ELSE b
Min(a, b) == IF a <= b THEN a ELSE b

\* chunking_service.py 165-176 and 179-189: the weight of each keyword
\* pattern in the order of the dict, in hundredths
current_patterns == <<90, 90, 85, 85, 80, 90, 85, 80, 75, 70>>
historical_patterns == <<30, 20, 25, 40, 30, 10, 10, 10, 10>>

\* chunking_service.py 207-208: a historical keyword lowers the score only
\* when no current keyword was found
LowerScore_always(is_current, max_score, score) == Min(max_score, score)
LowerScore(is_current, max_score, score) ==
    IF ~is_current THEN Min(max_score, score) ELSE max_score

\* chunking_service.py 194-199: the loop over current_patterns from the i-th
\* on; matched holds the patterns re.search finds in the text
RECURSIVE CheckCurrent(_, _, _)
CheckCurrent(i, matched, info) ==
    IF i > Len(current_patterns) THEN info
    ELSE CheckCurrent(i + 1, matched,
            IF i \in matched
            THEN [info EXCEPT !.has_temporal_indicator = TRUE,
                              !.is_current = TRUE,
                              !.keywords = Append(@, <<"current", i>>),
                              !.max_score = Max(@, current_patterns[i])]
            ELSE info)

\* chunking_service.py 202-208: the loop over historical_patterns
RECURSIVE CheckHistorical(_, _, _)
CheckHistorical(i, matched, info) ==
    IF i > Len(historical_patterns) THEN info
    ELSE CheckHistorical(i + 1, matched,
            IF i \in matched
            THEN [info EXCEPT !.has_temporal_indicator = TRUE,
                              !.is_historical = TRUE,
                              !.keywords = Append(@, <<"historical", i>>),
                              !.max_score = LowerScore(info.is_current, @,
                                                historical_patterns[i])]
            ELSE info)

\* chunking_service.py 147-220 for a text in which the current patterns
\* matched_current and the historical patterns matched_historical are found
detect_temporal_indicators(matched_current, matched_historical) ==
    LET temporal_info == [has_temporal_indicator |-> FALSE,
                          recency_score |-> 50, keywords |-> << >>,
                          is_current |-> FALSE, is_historical |-> FALSE,
                          confidence |-> "medium", max_score |-> 50]
        scanned == CheckHistorical(1, matched_historical,
                       CheckCurrent(1, matched_current, temporal_info))
    IN  [scanned EXCEPT
            !.recency_score = scanned.max_score,
            !.confidence = IF Len(scanned.keywords) >= 2 THEN "high"
                           ELSE IF Len(scanned.keywords) = 1 THEN "medium"
                           ELSE "low"]

\* the sets of patterns a text may match
Matches(patterns) ==
    {m \in SUBSET (1..Len(patterns)) : Cardinality(m) <= MaxMatched}

\* detect_temporal_indicators called on a text
detect_temporal_indicators_call ==
    /\ call.fn = "none"
    /\ \E mc \in Matches(current_patterns), mh \in Matches(historical_patterns) :
          call' = [fn |-> "detect_temporal_indicators", pc |-> "done",
                   matched_current |-> mc, matched_historical |-> mh,
                   temporal_info |-> detect_temporal_indicators(mc, mh)]
    /\ UNCHANGED <<documents, document_chunks, next_document_id, next_chunk_id,
                   next_upload_id, files, up, response, tasks, search_cache,
                   srch, answered, stale, faults, lineage>>

\* tokens[start:end] of a Python list of n elements: a negative index
\* counts from the end, an index out of range is clamped
PyIndex(i, n) == IF i < 0 THEN Max(i + n, 0) ELSE Min(i, n)
Slice_one_based(tokens, start, end) ==
    SubSeq(tokens, PyIndex(start, Len(tokens)) + 2, PyIndex(end, Len(tokens)))
Slice(tokens, start, end) ==
    SubSeq(tokens, PyIndex(start, Len(tokens)) + 1, PyIndex(end, Len(tokens)))

\* chunking_service.py 287-305 and 268-272: chunk_text_enhanced calls
\* chunk_text on a text of n tokens; a chunk is written as its tokens
chunk_text_enhanced_begin(n, chunk_size, overlap) ==
    /\ call.fn = "none"
    /\ call' = [fn |-> "chunk_text", pc |-> "loop",
                tokens |-> [i \in 1..n |-> i], chunk_size |-> chunk_size,
                overlap |-> overlap, start |-> 0, chunks |-> << >>,
                enhanced_chunks |-> << >>]
    /\ UNCHANGED <<documents, document_chunks, next_document_id, next_chunk_id,
                   next_upload_id, files, up, response, tasks, search_cache,
                   srch, answered, stale, faults, lineage>>

\* chunking_service.py 274-279: one pass of the while loop
chunk_text_iterate ==
    /\ call.fn = "chunk_text" /\ call.pc = "loop"
    /\ call.start < Len(call.tokens)
    /\ Len(call.chunks) < MaxChunks
    /\ LET end == call.start + call.chunk_size
       IN  call' = [call EXCEPT
                       !.chunks = Append(@, Slice(call.tokens, call.start,
                                                  end)),
                       !.start = end - call.overlap]
    /\ UNCHANGED <<documents, document_chunks, next_document_id, next_chunk_id,
                   next_upload_id, files, up, response, tasks, search_cache,
                   srch, answered, stale, faults, lineage>>

\* chunking_service.py 274, 281-284: the loop is left once start has reached
\* the end of the tokens
chunk_text_return ==
    /\ call.fn = "chunk_text" /\ call.pc = "loop"
    /\ call.start >= Len(call.tokens)
    /\ call' = [call EXCEPT !.pc = "returned"]
    /\ UNCHANGED <<documents, document_chunks, next_document_id, next_chunk_id,
                   next_upload_id, files, up, response, tasks, search_cache,
                   srch, answered, stale, faults, lineage>>

\* chunking_service.py 308-345: enumerate(basic_chunks)
chunk_text_enhanced_return ==
    /\ call.fn = "chunk_text" /\ call.pc = "returned"
    /\ call' = [call EXCEPT
                   !.pc = "done",
                   !.enhanced_chunks =
                       [i \in 1..Len(call.chunks) |->
                           [text |-> call.chunks[i], chunk_index |-> i - 1]]]
    /\ UNCHANGED <<documents, document_chunks, next_document_id, next_chunk_id,
                   next_upload_id, files, up, response, tasks, search_cache,
                   srch, answered, stale, faults, lineage>>

chunk_text_enhanced ==
    \/ \E n \in 0..MaxTokens, chunk_size \in 1..MaxChunkSize, overlap \in 0..MaxOverlap : chunk_text_enhanced_begin(n, chunk_size, overlap)
    \/ chunk_text_iterate
    \/ chunk_text_return
    \/ chunk_text_enhanced_return

(* ----------------------- completeness_service -------------------------- *)
\* the requirement strings, each standing for its embedding
Requirements == 0..4

\* completeness_service.py 93: covered / total * 100 as a fraction
Percentage(covered_requirements, total_requirements) ==
    IF total_requirements > 0
    THEN [num |-> covered_requirements * 100, den |-> total_requirements]
    ELSE [num |-> 0, den |-> 1]

\* completeness_service.py 96: the uncovered requirements of the analysis
RECURSIVE Gaps(_)
Gaps(analysis) ==
    IF analysis = << >> THEN << >>
    ELSE (IF Head(analysis).covered THEN << >>
          ELSE <<Head(analysis).requirement>>) \o Gaps(Tail(analysis))

\* completeness_service.py 49: the similarity the coverage is decided on
BestSimilarity(results) == results[1].similarity

\* completeness_service.py 38-46 and 76-88: the analysis of one requirement
Analyse(requirement, results) ==
    IF results = << >>
    THEN [requirement |-> requirement, covered |-> FALSE, confidence |-> 0,
          sources |-> << >>]
    ELSE [requirement |-> requirement,
          covered |-> BestSimilarity(results) > coverage_threshold,
          confidence |-> BestSimilarity(results),
          sources |-> [i \in 1..Len(results) |->
                          [filename |-> results[i].filename,
                           similarity |-> results[i].similarity]]]

\* completeness_service.py 16-32: check_completeness is called
check_completeness_begin(requirements) ==
    /\ call.fn = "none"
    /\ srch.pc = "idle"
    /\ call' = [fn |-> "check_completeness", pc |-> "loop",
                requirements |-> requirements, analysis |-> << >>,
                completeness_percentage |-> Percentage(0, 0),
                total_requirements |-> 0, covered_count |-> 0,
                gaps |-> << >>]
    /\ UNCHANGED <<documents, document_chunks, next_document_id, next_chunk_id,
                   next_upload_id, files, up, response, tasks, search_cache,
                   srch, answered, stale, faults, lineage>>

\* completeness_service.py 34-88: one requirement is searched for with
\* top_k = 3 and the default arguments (search_service.py 62-180: cache hit,
\* failed embedding, or store query, ranking and cache insertion) and analysed
check_completeness_requirement ==
    /\ call.fn = "check_completeness" /\ call.pc = "loop"
    /\ Len(call.analysis) < Len(call.requirements)
    /\ LET requirement == call.requirements[Len(call.analysis) + 1]
           key == get_cache_key(requirement, completeness_top_k, TRUE)
           hit == CacheHas(search_cache["api"], key)
           rows == StoreRows(documents, document_chunks, requirement,
                             completeness_top_k, TRUE)
           final_results ==
               FinalResults(rows, completeness_top_k, TRUE,
                            default_recency_weight,
                            default_similarity_threshold)
       IN  \E failed \in {FALSE} \cup {f \in {TRUE} : ~hit /\ faults < MaxFaults} :
             LET results == IF hit THEN CacheGet(search_cache["api"], key)
                            ELSE IF failed THEN << >>
                            ELSE final_results
                 asked == ~hit /\ ~failed
             IN  /\ faults' = IF failed THEN faults + 1 ELSE faults
                 /\ search_cache' =
                        IF asked /\ rows # << >>
                        THEN [search_cache EXCEPT !["api"] =
                                 CachePut(@, key, final_results)]
                        ELSE search_cache
                 /\ answered' =
                        Returned(key, default_recency_weight,
                                 default_similarity_threshold,
                                 IF asked
                                 THEN SearchLimit(completeness_top_k, TRUE)
                                 ELSE NULL,
                                 IF asked
                                 THEN [i \in 1..Len(rows) |-> rows[i].chunk_id]
                                 ELSE << >>,
                                 results)
                 /\ stale' = IF asked /\ rows # << >>
                             THEN stale \cap
                                  (CacheKeys(search_cache'["api"]) \ {key})
                             ELSE stale
                 /\ call' = [call EXCEPT
                        !.analysis = Append(@, Analyse(requirement, results))]
    /\ UNCHANGED <<documents, document_chunks, next_document_id, next_chunk_id,
                   next_upload_id, files, up, response, tasks, srch, lineage>>

\* completeness_service.py 90-104: the totals
check_completeness_return ==
    /\ call.fn = "check_completeness" /\ call.pc = "loop"
    /\ Len(call.analysis) = Len(call.requirements)
    /\ LET total_requirements == Len(call.requirements)
           covered_requirements ==
               Cardinality({i \in 1..Len(call.analysis) :
                               call.analysis[i].covered})
       IN  call' = [call EXCEPT
               !.pc = "done",
               !.completeness_percentage =
                   Percentage(covered_requirements, total_requirements),
               !.total_requirements = total_requirements,
               !.covered_count = covered_requirements,
               !.gaps = Gaps(call.analysis)]
    /\ UNCHANGED <<documents, document_chunks, next_document_id, next_chunk_id,
                   next_upload_id, files, up, response, tasks, search_cache,
                   srch, answered, stale, faults, lineage>>

RequirementLists ==
    UNION {[1..n -> Requirements] : n \in 0..MaxRequirements}

check_completeness ==
    \/ \E requirements \in RequirementLists : check_completeness_begin(requirements)
    \/ check_completeness_requirement
    \/ check_completeness_return

(* --------------------------- specifications --------------------------- *)
Init ==
    /\ documents = {}
    /\ document_chunks = {}
    /\ next_document_id = 1
    /\ next_chunk_id = 1
    /\ next_upload_id = 1
    /\ files = {}
    /\ up = [r \in Requests |-> IdleUpload]
    /\ response = [r \in Requests |-> NoResponse]
    /\ tasks = [t \in UploadIds |-> NoTask]
    /\ search_cache = [p \in Tiers |-> << >>]
    /\ srch = IdleSearch
    /\ answered = {}
    /\ stale = {}
    /\ faults = 0
    /\ lineage = [f \in Filenames |-> [n |-> 0, dup |-> 0, deleted |-> FALSE]]
    /\ call = NoCall

\* Ingestion: uploads and deletes one at a time, the worker alongside
Next ==
    \/ upload_document(1)
    \/ \E d \in documents : up[1].pc = "idle" /\ delete_document(d.id)
    \/ \E t \in UploadIds : process_document(t)

Spec == Init /\ [][Next]_vars

\* Retrieval: uploads one at a time, the worker and searches alongside
NextSearch ==
    \/ upload_document(1)
    \/ \E t \in UploadIds : process_document(t)
    \/ semantic_search

SpecSearch == Init /\ [][NextSearch]_vars

\* Two uploads in flight at once, their database statements interleaved
NextConcurrent ==
    \/ \E r \in Requests : upload_document(r)
    \/ \E t \in UploadIds : process_document(t)

SpecConcurrent == Init /\ [][NextConcurrent]_vars

\* The store after n uploads of new filenames with new contents, each
\* ingested by its job at the first attempt
RECURSIVE ChunksBefore(_)
ChunksBefore(i) ==
    IF i <= 1 THEN 0 ELSE ChunksBefore(i - 1) + ChunkCount(i - 1)

IngestedDocuments(n) == {Document(i, i, i, 1) : i \in 1..n}

IngestedChunks(n) ==
    UNION {NewChunks(d, 1 + ChunksBefore(d.id)) : d \in IngestedDocuments(n)}

Ingested(n) ==
    [documents |-> IngestedDocuments(n), document_chunks |-> IngestedChunks(n),
     uploads |-> n, status |-> IF n = 0 THEN "none" ELSE "processing",
     versions |-> [f \in Filenames |-> IF f <= n THEN 1 ELSE 0]]

\* The store after filename 1 was uploaded with content 1 and again with
\* content 2 and both jobs have run: the first job before the second upload
\* (its chunks were deactivated with their document) or after it (late)
Superseded(late) ==
    LET d1 == Document(1, 1, 1, 1)
        d2 == Document(2, 1, 2, NextVersion(d1))
    IN  [documents |-> {DeactivateDocument(d1), d2},
         document_chunks |->
             (IF late THEN NewChunks(d1, 1)
                      ELSE DeactivateChunks(NewChunks(d1, 1), d1.id))
             \cup NewChunks(d2, 1 + ChunkCount(d1.content_hash)),
         uploads |-> 2, status |-> "updated",
         versions |-> [f \in Filenames |-> IF f = 1 THEN 2 ELSE 0]]

Stores ==
    {Ingested(n) : n \in 0..NumContents} \cup {Superseded(l) : l \in BOOLEAN}

\* The request tier's cache after m searches for m other queries, each with
\* top_k = 1 and the default arguments
FilledCache(m, docs, cs) ==
    [i \in 1..m |->
        [key |-> get_cache_key(cache_max_size + i, 1, TRUE),
         value |-> FinalResults(
                       StoreRows(docs, cs, cache_max_size + i, 1, TRUE),
                       1, TRUE, default_recency_weight,
                       default_similarity_threshold)]]

\* the program with the documents of store ingested and the request tier's
\* cache filled by m earlier searches
ServiceState(store, m) ==
        /\ documents = store.documents
        /\ document_chunks = store.document_chunks
        /\ next_document_id = store.uploads + 1
        /\ next_chunk_id = 1 + Cardinality(store.document_chunks)
        /\ next_upload_id = store.uploads + 1
        /\ files = {}
        /\ up = [r \in Requests |-> IdleUpload]
        /\ response = [r \in Requests |->
               IF r = 1 /\ store.uploads > 0
               THEN [status |-> store.status, document_id |-> store.uploads,
                     task_id |-> store.uploads]
               ELSE NoResponse]
        /\ tasks = [t \in UploadIds |->
               IF t <= store.uploads
               THEN [NewTask(t) EXCEPT !.state = "SUCCESS", !.pc = "done",
                                       !.progress = Checkpoint("complete"),
                                       !.phase = 5]
               ELSE NoTask]
        /\ search_cache = [p \in Tiers |->
               IF p = "api"
               THEN FilledCache(m, documents, document_chunks)
               ELSE clear_search_cache]
        /\ srch = IdleSearch
        /\ answered =
               {[key |-> search_cache["api"][i].key,
                 recency_weight |-> default_recency_weight,
                 similarity_threshold |-> default_similarity_threshold,
                 search_limit |-> SearchLimit(1, TRUE),
                 fetched |->
                     LET rows == StoreRows(documents, document_chunks,
                                           cache_max_size + i, 1, TRUE)
                     IN  [j \in 1..Len(rows) |-> rows[j].chunk_id],
                 results |-> search_cache["api"][i].value] : i \in 1..m}
        /\ stale = {}
        /\ faults = 0
        /\ lineage = [f \in Filenames |->
               [n |-> store.versions[f], dup |-> 0, deleted |-> FALSE]]
        /\ call = NoCall

\* semantic_search meets a store and a cache filled by m earlier searches
InitService ==
    \E store \in Stores :
    \E m \in IF store = Ingested(NumContents)
             THEN {0, cache_max_size - 1, cache_max_size} ELSE {0} :
        ServiceState(store, m)

\* Retrieval as a service: semantic_search called with any arguments
NextService == semantic_search_call

SpecService == InitService /\ [][NextService]_vars

\* Ingestion with a worker that keeps consuming its queue: a delivered or
\* due task is eventually run, a running attempt eventually goes on
SpecWorker ==
    Init /\ [][Next]_vars /\ WF_vars(\E t \in UploadIds : process_document(t))

\* Ingestion when the broker may refuse a job and the removal of a staged
\* file may fail
NextFaulty ==
    \/ upload_document(1)
    \/ upload_document_enqueue_fails(1)
    \/ \E t \in UploadIds : process_document(t)
    \/ \E t \in UploadIds : process_document_remove_raises(t)

SpecFaulty == Init /\ [][NextFaulty]_vars

\* The chunking service called on any text
NextChunking ==
    \/ chunk_text_enhanced
    \/ detect_temporal_indicators_call

SpecChunking == Init /\ [][NextChunking]_vars

\* The completeness check over a store of up to NumContents + 1 ingested
\* documents and an empty cache
InitCompleteness ==
    \E n \in 0..(NumContents + 1) : ServiceState(Ingested(n), 0)

NextCompleteness == check_completeness

SpecCompleteness == InitCompleteness /\ [][NextCompleteness]_vars

\* Deletion beside retrieval: a store whose jobs have run, an empty cache,
\* deletes and searches in any order
InitDelete == InitService /\ search_cache["api"] = clear_search_cache

NextDelete ==
    \/ \E d \in documents : delete_document(d.id)
    \/ semantic_search

SpecDelete == InitDelete /\ [][NextDelete]_vars

(* ------------------------------ claims -------------------------------- *)
DocumentsOf(f) == {d \in documents : d.filename = f}

\* C1: after any sequence of uploads and deletes executed one at a time, every
\* filename has at most one Document with is_active = true.
C1_OneActivePerFilename ==
    \A d1, d2 \in documents :
        (d1.filename = d2.filename /\ d1.is_active /\ d2.is_active)
            => d1.id = d2.id

\* C1 witness: a filename that was re-uploaded and had a Document deleted
\* holds a superseded and an active Document.
C1_Witness ==
    \E f \in Filenames :
        /\ lineage[f].deleted
        /\ \E d \in DocumentsOf(f) : d.is_active
        /\ \E d \in DocumentsOf(f) : ~d.is_active

\* The lineage of f is N Documents: the active one has version N, the other
\* N - 1 are inactive with replaced_at set.
VersionChain(f, N) ==
    /\ Cardinality(DocumentsOf(f)) = N
    /\ \E d \in DocumentsOf(f) :
          /\ d.is_active
          /\ d.version = N
          /\ \A e \in DocumentsOf(f) \ {d} :
                ~e.is_active /\ e.replaced_at # NULL

\* C2 as stated: after N successive uploads of a filename, each with content
\* different from the currently active version, the active Document has
\* version N and the N - 1 earlier Documents are inactive with replaced_at
\* set.
C2_VersionEqualsUploads ==
    \A f \in Filenames :
        (up[1].pc = "idle" /\ ~lineage[f].deleted /\ lineage[f].n > 0)
            => VersionChain(f, lineage[f].n)

\* C2 amended: the same with N counting only the uploads that were not
\* answered Duplicate.
C2_VersionEqualsAcceptedUploads ==
    \A f \in Filenames :
        (up[1].pc = "idle" /\ ~lineage[f].deleted
            /\ lineage[f].n - lineage[f].dup > 0)
            => VersionChain(f, lineage[f].n - lineage[f].dup)

\* C2 witness: two content-changing uploads of one filename have completed.
C2_Witness ==
    \E f \in Filenames :
        /\ up[1].pc = "idle"
        /\ ~lineage[f].deleted
        /\ lineage[f].n - lineage[f].dup >= 2
        /\ \E d \in DocumentsOf(f) : d.is_active /\ d.version = 2

\* C3: an upload whose filename has an active Document with the same content
\* hash (NoChange) creates or modifies no Document or Chunk row, enqueues no
\* job, leaves the cache alone and answers with the existing document id.
C3_NoChangeChangesNothing ==
    [][\A r \in Requests : \A d \in documents :
          (/\ up[r].pc = "lookup"
           /\ up'[r].pc # "lookup"
           /\ d.filename = up[r].filename
           /\ d.is_active
           /\ d.content_hash = up[r].content_hash)
          => /\ documents' = documents
             /\ document_chunks' = document_chunks
             /\ tasks' = tasks
             /\ search_cache' = search_cache
             /\ up'[r].pc = "idle"
             /\ response'[r] = [status |-> "no_change",
                                document_id |-> d.id, task_id |-> NULL]]_vars

\* C3 witness: NoChange was answered while chunks were stored and the cache
\* held an entry.
C3_Witness ==
    /\ response[1].status = "no_change"
    /\ search_cache["api"] # << >>
    /\ \E c \in document_chunks : c.document_id = response[1].document_id

\* C4: an upload under a filename without active Document, whose content
\* hash is that of some active Document, answers Duplicate referencing such
\* a Document, creates or modifies no row and enqueues no job.
C4_DuplicateChangesNothing ==
    [][\A r \in Requests :
          (/\ up[r].pc = "content"
           /\ up'[r].pc # "content"
           /\ ActiveByFilename(documents, up[r].filename) = {}
           /\ \E d \in documents :
                 d.is_active /\ d.content_hash = up[r].content_hash)
          => /\ documents' = documents
             /\ document_chunks' = document_chunks
             /\ tasks' = tasks
             /\ up'[r].pc = "idle"
             /\ response'[r].status = "duplicate"
             /\ \E d \in documents :
                   /\ d.id = response'[r].document_id
                   /\ d.is_active
                   /\ d.content_hash = up[r].content_hash]_vars

\* C4 witness: Duplicate was answered, referencing an active Document of
\* another filename.
C4_Witness ==
    /\ response[1].status = "duplicate"
    /\ \E d \in documents : d.id = response[1].document_id /\ d.is_active

\* C5: every newly created Document has a version greater than that of every
\* Document of the same filename created before it (here: still stored).
C5_VersionsIncrease ==
    [][\A d \in documents' :
          (\A e \in documents : e.id # d.id)
          => \A e \in documents :
                e.filename = d.filename => d.version > e.version]_vars

\* C6: in every reachable state no Chunk is active whose owning Document is
\* inactive.
C6_NoActiveChunkOfInactiveDocument ==
    \A c \in document_chunks :
        c.is_active
            => \E d \in documents : d.id = c.document_id /\ d.is_active

\* C7: with two uploads of one filename and different contents in flight at
\* once, no state has two active Documents of that filename and no two
\* Documents of the filename carry the same version.
C7_ConcurrentUploadsSerialized ==
    \A d1, d2 \in documents :
        (/\ d1.filename = d2.filename
         /\ d1.id # d2.id
         /\ d1.content_hash # d2.content_hash)
            => /\ ~(d1.is_active /\ d2.is_active)
               /\ d1.version # d2.version

\* C8: a search with the key of a search answered earlier, with no ingestion
\* commit or cache invalidation in between, is answered from the cache with
\* the earlier answer and does not go on to the embedding provider.
C8_RepeatedSearchHitsCache ==
    [][/\ (srch.pc = "idle" /\ srch'.pc = "embedding")
          => \A a \in answered :
                a.key # get_cache_key(srch'.query, srch'.top_k,
                                      srch'.use_recency_boost)
       /\ \A a \in answered, b \in answered' :
             a.key = b.key => a.results = b.results]_vars

\* C9: once an ingestion commit that changed the active set has completed
\* (the job that persisted Chunks, or the upload that deactivated a version,
\* has run its invalidation), the cache of the request-handling tier holds
\* no result computed before that commit.
C9_NoCachedResultFromBeforeCommit ==
    (/\ \A t \in UploadIds : tasks[t].pc # "clear"
     /\ \A r \in Requests : up[r].pc # "clear")
        => stale = {}

\* C10: in every NewVersion upload the cache is invalidated after the commit
\* that deactivated the old Document and before the job of the new version
\* is enqueued.
C10_InvalidateAfterCommitBeforeEnqueue ==
    [][\A r \in Requests :
          /\ (up[r].pc = "clear" /\ up'[r].pc # "clear")
             => /\ \E d \in documents :
                      /\ d.id = up[r].document_id
                      /\ d.is_active
                      /\ d.version = up[r].existing.version + 1
                /\ \A e \in documents :
                      e.id = up[r].existing.id
                          => ~e.is_active /\ e.replaced_at # NULL
                /\ search_cache'["api"] = << >>
                /\ tasks'[up[r].upload_id].state = "NONE"
          /\ (/\ up[r].upload_id # NULL
              /\ up[r].existing.id # NULL
              /\ tasks[up[r].upload_id].state = "NONE"
              /\ tasks'[up[r].upload_id].state # "NONE")
             => up[r].cleared]_vars

\* C10 witness: a NewVersion upload that superseded an ingested version has
\* invalidated the cache and is about to enqueue its job.
C10_Witness ==
    \E r \in Requests :
        /\ up[r].pc = "enqueue"
        /\ up[r].cleared
        /\ \E c \in document_chunks :
              c.document_id = up[r].existing.id /\ ~c.is_active

C12_StatusStateMachine ==
    [][\A t \in UploadIds :
          LET old == get_task_status(t).status
              new == get_task_status(t)'.status
          IN  /\ new \in {"pending", "processing", "completed", "failed"}
              /\ old # new =>
                    \/ old = "pending" /\ new = "processing"
                    \/ old = "processing" /\ new \in {"completed", "failed"}
              /\ old \in {"completed", "failed"} => new = old]_vars

\* The percentage a poll of task t shows, if any
Reported(t) == tasks[t].state \in {"PROGRESS", "SUCCESS"}

\* C13 as stated: in each attempt 10 is reported only after text extraction
\* has finished, 30 only after chunking and metadata extraction, 50 only
\* after embedding generation, 80 only after the Chunk rows are persisted,
\* 100 on completion, and no other percentage is reported.
C13_CheckpointAfterStep ==
    \A t \in UploadIds :
        Reported(t) =>
            /\ tasks[t].progress \in {10, 30, 50, 80, 100}
            /\ tasks[t].progress = 10 => tasks[t].phase >= 1
            /\ tasks[t].progress = 30 => tasks[t].phase >= 2
            /\ tasks[t].progress = 50 => tasks[t].phase >= 3
            /\ tasks[t].progress = 80 => tasks[t].phase >= 4
            /\ tasks[t].progress = 100 => tasks[t].phase = 5

\* C13 amended: in each attempt 10 is reported before text extraction, 30
\* only after text extraction has finished, 50 only after chunking and
\* metadata extraction, 80 only after embedding generation, 100 only after
\* the Chunk rows are persisted and the body is complete, and no other
\* percentage is reported.
C13_CheckpointBeforeStep ==
    \A t \in UploadIds :
        Reported(t) =>
            /\ tasks[t].progress \in {10, 30, 50, 80, 100}
            /\ tasks[t].progress = 10 => tasks[t].phase = 0
            /\ tasks[t].progress = 30 => tasks[t].phase = 1
            /\ tasks[t].progress = 50 => tasks[t].phase = 2
            /\ tasks[t].progress = 80 => tasks[t].phase \in {3, 4}
            /\ tasks[t].progress = 100 => tasks[t].phase = 5

\* C13 witness: a second attempt of a job reports 80 with its Chunk rows
\* persisted.
C13_Witness ==
    \E t \in UploadIds :
        /\ tasks[t].state = "PROGRESS"
        /\ tasks[t].retries > 0
        /\ tasks[t].progress = 80
        /\ tasks[t].phase = 4

\* C14: every job terminates: a failed attempt with retry count r < 3 is
\* requeued with delay 60 * 2^r seconds, a job runs at most 4 attempts, fails
\* terminally only when the retries are used up, and every enqueued job
\* eventually is Succeeded or Failed.
C14_JobTerminates ==
    /\ [][\A t \in UploadIds :
             (tasks[t].state # "RETRY" /\ tasks'[t].state = "RETRY")
                 => /\ tasks[t].retries < 3
                    /\ tasks'[t].retries = tasks[t].retries + 1
                    /\ tasks'[t].countdown = 60 * 2 ^ tasks[t].retries
                    /\ tasks'[t].countdown \in {60, 120, 240}]_vars
    /\ [](\A t \in UploadIds :
             /\ tasks[t].retries + 1 <= 4
             /\ tasks[t].state = "FAILURE" => tasks[t].retries = 3)
    /\ \A t \in UploadIds :
          (tasks[t].state # "NONE")
              ~> (tasks[t].state \in {"SUCCESS", "FAILURE"})

\* C14 witness: one job has failed terminally after its fourth attempt and
\* another has succeeded after a retry.
C14_Witness ==
    /\ \E t \in UploadIds :
          /\ tasks[t].state = "FAILURE"
          /\ tasks[t].retries = 3
          /\ tasks[t].countdown = 240
    /\ \E t \in UploadIds :
          tasks[t].state = "SUCCESS" /\ tasks[t].retries = 1

ChunksOf(document_id) ==
    {c \in document_chunks : c.document_id = document_id}

C17_ResultsAtOrAboveThreshold ==
    \A a \in answered : \A i \in 1..Len(a.results) :
        a.results[i].similarity >= a.similarity_threshold

\* C18: for every semantic_search call each returned result's hybrid_score
\* is similarity * (1 - recency_weight) + recency_score * recency_weight with
\* the recency_weight of that call when the boost is enabled and the
\* similarity when it is disabled (scores in hundredths); the list is in
\* non-increasing hybrid_score order and has at most top_k entries.
C18_HybridScoreOfTheCall ==
    \A a \in answered :
        /\ Len(a.results) <= a.key[2]
        /\ \A i \in 1..Len(a.results) :
              LET x == a.results[i]
              IN  /\ x.hybrid_score =
                        IF a.key[3]
                        THEN x.similarity * (10 - a.recency_weight)
                             + x.recency_score * a.recency_weight
                        ELSE x.similarity * 10
                  /\ \A j \in i..Len(a.results) :
                        x.hybrid_score >= a.results[j].hybrid_score

\* Chunks that are active and owned by an active Document, and the
\* similarity of a stored chunk to a query
Eligible ==
    {c \in document_chunks :
        c.is_active /\ \E d \in documents : d.id = c.document_id /\ d.is_active}

SimilarityTo(query, c) ==
    LET d == CHOOSE e \in documents : e.id = c.document_id
    IN  Similarity(query, d.content_hash, c.chunk_index)

\* The store was asked for limit rows and returned the limit nearest
\* eligible chunks, from which the answer was taken.
FetchedNearest(a, limit) ==
    LET ids == {a.fetched[i] : i \in 1..Len(a.fetched)}
        got == {c \in document_chunks : c.id \in ids}
    IN  /\ a.search_limit = limit
        /\ got \subseteq Eligible
        /\ Cardinality(got) = Len(a.fetched)
        /\ Len(a.fetched) = IF Cardinality(Eligible) < limit
                            THEN Cardinality(Eligible) ELSE limit
        /\ \A c \in got : \A e \in Eligible \ got :
              SimilarityTo(a.key[1], c) >= SimilarityTo(a.key[1], e)
        /\ \A i \in 1..Len(a.results) : a.results[i].chunk_id \in ids
        /\ Len(a.results) <= a.key[2]

\* C19 as stated: every semantic_search call that misses the cache asks the
\* store for top_k * 3 nearest candidates among the chunks that are active
\* with an active Document, then re-ranks and truncates to top_k.
C19_OversamplesOnEveryMiss ==
    \A a \in answered :
        a.search_limit # NULL => FetchedNearest(a, a.key[2] * 3)

\* C19 amended: the same with top_k * 3 candidates when the recency boost is
\* enabled and top_k candidates when it is disabled.
C19_OversamplesWhenBoosting ==
    \A a \in answered :
        a.search_limit # NULL
            => FetchedNearest(a, IF a.key[3] THEN a.key[2] * 3 ELSE a.key[2])

\* C19 witness: with an active chunk of a superseded Document in the store, a
\* boosted search for top_k = 1 asked for 3 candidates, got the two eligible
\* ones and returned one.
C19_Witness ==
    /\ Eligible # {c \in document_chunks : c.is_active}
    /\ \E a \in answered :
          /\ a.key[3]
          /\ a.key[2] = 1
          /\ a.search_limit = 3
          /\ Len(a.fetched) = 2
          /\ Len(a.results) = 1

\* C20: the cache never holds more than 100 entries; an insertion into a full
\* cache evicts exactly the entry inserted earliest among those present and
\* keeps the others in their order, an insertion into a cache that is not
\* full evicts nothing, and a cache hit leaves the cache as it is.
C20_BoundedInsertionOrderCache ==
    [][LET old == search_cache["api"]
           new == search_cache'["api"]
       IN  /\ Len(new) <= 100
           /\ (/\ srch.pc = "idle" /\ srch'.pc = "idle"
               /\ \E a \in answered' : a \notin answered)
                 => new = old
           /\ (new # old /\ new # << >>)
                 => /\ new[Len(new)].key \notin CacheKeys(old)
                    /\ Len(old) = 100
                          => /\ Len(new) = 100
                             /\ \A i \in 1..99 : new[i] = old[i + 1]
                    /\ Len(old) < 100
                          => /\ Len(new) = Len(old) + 1
                             /\ \A i \in 1..Len(old) : new[i] = old[i]]_vars

\* C20 witness: a full cache has evicted its two earliest entries for two
\* insertions and has then answered a search from the cache.
C20_Witness ==
    /\ Len(search_cache["api"]) = 100
    /\ search_cache["api"][1].key = get_cache_key(cache_max_size + 3, 1, TRUE)
    /\ \E a \in answered :
          /\ a.key[1] \in ServiceQueries
          /\ a.search_limit = NULL
          /\ CacheHas(search_cache["api"], a.key)

\* C28: no two active Documents stored under different filenames have the
\* same content_hash.
C28_UniqueActiveContentHash ==
    \A d \in documents, e \in documents :
        (/\ d.is_active /\ e.is_active
         /\ d.filename # e.filename)
            => d.content_hash # e.content_hash

\* the ingestion of document_id has ended FAILURE and no job of it is left
FailedIngestion(document_id) ==
    /\ \E t \in UploadIds :
          tasks[t].document_id = document_id /\ tasks[t].state = "FAILURE"
    /\ \A t \in UploadIds :
          tasks[t].document_id = document_id => tasks[t].state = "FAILURE"

\* C29: an upload of the same file as an active Document whose ingestion
\* ended FAILURE is answered with a newly enqueued ingestion job.
C29_FailedIngestionRecoverable ==
    [][\A r \in Requests :
          (/\ up[r].pc = "lookup"
           /\ up'[r].pc = "idle"
           /\ \E d \in ActiveByFilename(documents, up[r].filename) :
                 /\ d.content_hash = up[r].content_hash
                 /\ FailedIngestion(d.id))
             => /\ response'[r].task_id # NULL
                /\ tasks'[response'[r].task_id].state = "PENDING"]_vars

\* C26: a delete removes exactly the Document (active or superseded) and its
\* Chunks and changes no other row, and every search answered afterwards,
\* from the cache or from the store, returns only chunks of Documents that
\* are still stored.
C26_DeletedDocumentNeverReturned ==
    [][/\ documents' # documents
          => \E d \in documents :
                /\ documents' = documents \ {d}
                /\ document_chunks' =
                       {c \in document_chunks : c.document_id # d.id}
       /\ \A a \in answered' \ answered :
             \A i \in 1..Len(a.results) :
                \E d \in documents' : d.id = a.results[i].document_id]_vars

\* the upload_document call of request slot r ends in this step: it answers
\* after its stream was staged, or its stream is rejected
CallEnds(r) ==
    /\ up'[r].pc = "idle"
    /\ \/ up[r].pc # "idle"
       \/ /\ up' = up
          /\ next_upload_id' # next_upload_id
          /\ response'[r].status \in {"error_400", "error_408"}

\* the staged file of the call of request slot r that is ending
StagedFile(r) == IF up[r].pc = "idle" THEN next_upload_id ELSE up[r].upload_id

C27_ChunkSetPersistedOnce ==
    \A c1 \in document_chunks, c2 \in document_chunks :
        (/\ c1.document_id = c2.document_id
         /\ c1.chunk_index = c2.chunk_index
         /\ c1.is_active /\ c2.is_active)
            => c1 = c2

\* C30: an upload_document call that ends with 400, 408 or 500 has committed
\* no Document, has deactivated no previous version and has not cleared the
\* cache; a rejected stream changes no table and no cache.
C30_ErrorLeavesStoreUnchanged ==
    [][\A r \in Requests :
          (/\ CallEnds(r)
           /\ response'[r].status \in {"error_400", "error_408", "error_500"})
             => /\ \A d \in documents' : d.id # up[r].document_id
                /\ up[r].existing.id # NULL => up[r].existing \in documents'
                /\ ~up[r].cleared
                /\ up[r].pc = "idle"
                      => /\ documents' = documents
                         /\ document_chunks' = document_chunks
                         /\ search_cache' = search_cache]_vars

\* C21: recency_score is the largest weight among the matched current
\* patterns if any current pattern matches, otherwise the smallest weight
\* among the matched historical patterns if any, otherwise 0.5; it lies in
\* [0,1]; 'current' with 'previous' gives 0.9 and 'archived' alone gives 0.1.
C21_RecencyScoreOfMatches ==
    call.fn = "detect_temporal_indicators" =>
        LET mc == call.matched_current
            mh == call.matched_historical
            score == call.temporal_info.recency_score
        IN  /\ mc # {} =>
                  /\ \E i \in mc : score = current_patterns[i]
                  /\ \A i \in mc : score >= current_patterns[i]
            /\ (mc = {} /\ mh # {}) =>
                  /\ \E i \in mh : score = historical_patterns[i]
                  /\ \A i \in mh : score <= historical_patterns[i]
            /\ (mc = {} /\ mh = {}) => score = 50
            /\ score >= 0 /\ score <= 100
            /\ (mc = {1} /\ mh = {1}) => score = 90
            /\ (mc = {} /\ mh = {6}) => score = 10

\* C21 witness: a text with 'effective' and with 'old' and 'archived' has
\* been scored with the weight of 'effective'.
C21_Witness ==
    /\ call.fn = "detect_temporal_indicators"
    /\ call.matched_current = {10}
    /\ call.matched_historical = {2, 6}
    /\ call.temporal_info.recency_score = 70

\* chunk_text has returned
Chunked == call.fn = "chunk_text" /\ call.pc \in {"returned", "done"}

\* C22: for an input of zero tokens or of fewer tokens than chunk_size, with
\* overlap < chunk_size, chunk_text returns exactly one chunk, the input.
C22_ShortInputOneChunk ==
    (/\ Chunked
     /\ call.overlap < call.chunk_size
     /\ Len(call.tokens) < call.chunk_size)
        => call.chunks = <<call.tokens>>

\* C22 as the code has it: with overlap < chunk_size, an input of at least
\* one token and of no more than chunk_size - overlap tokens comes back as
\* exactly one chunk, the input, and an input of zero tokens as no chunk.
C22_OneStepInputOneChunk ==
    (Chunked /\ call.overlap < call.chunk_size) =>
        /\ (/\ Len(call.tokens) >= 1
            /\ Len(call.tokens) <= call.chunk_size - call.overlap)
              => call.chunks = <<call.tokens>>
        /\ Len(call.tokens) = 0 => call.chunks = << >>

\* C22 witness: two tokens, a window of three that advances by two: one
\* chunk holding both tokens was returned.
C22_Witness ==
    /\ Chunked
    /\ Len(call.tokens) = 2
    /\ call.chunk_size = 3 /\ call.overlap = 1
    /\ call.chunks = <<call.tokens>>

\* the start positions 0, s, 2s, ... below the token count
Starts(n, s) == {k \in 0..n : k * s < n}

\* the chunks are the windows of at most chunk_size tokens at the start
\* positions 0, s, 2s, ... in that order
WindowsEmitted ==
    LET n == Len(call.tokens)
        s == call.chunk_size - call.overlap
    IN  /\ Len(call.chunks) = Cardinality(Starts(n, s))
        /\ \A k \in Starts(n, s) :
              call.chunks[k + 1] =
                  SubSeq(call.tokens, k * s + 1,
                         Min(k * s + call.chunk_size, n))
        /\ \A i \in 1..n :
              \E j \in 1..Len(call.chunks) :
                 \E m \in 1..Len(call.chunks[j]) : call.chunks[j][m] = i

\* C25: for chunk_size >= 1 and overlap >= 0 every pass of the loop of
\* chunk_text moves the window start forward, so the loop ends; what it
\* returns is one window of at most chunk_size tokens for each start position
\* 0, s, 2s, ... below the token count, so every token is in a chunk; and
\* chunk_text_enhanced numbers the chunks 0..n-1 in that order.
C25_ChunkTextTerminatesWithWindows ==
    [][(call.fn = "chunk_text" /\ call'.fn = "chunk_text") =>
          /\ Len(call'.chunks) > Len(call.chunks) => call'.start > call.start
          /\ call'.pc = "returned" => WindowsEmitted'
          /\ call'.pc = "done" =>
                /\ Len(call'.enhanced_chunks) = Len(call'.chunks)
                /\ \A i \in 1..Len(call'.chunks) :
                      /\ call'.enhanced_chunks[i].chunk_index = i - 1
                      /\ call'.enhanced_chunks[i].text = call'.chunks[i]]_vars

\* the largest similarity among the sources of an analysis entry
HighestSimilarity(sources) ==
    CHOOSE m \in {sources[i].similarity : i \in 1..Len(sources)} :
        \A i \in 1..Len(sources) : sources[i].similarity <= m

\* C23: a requirement is covered iff its search returned a result and the
\* highest similarity among the returned results is above 0.7, with
\* confidence 0 when nothing was returned; gaps are the uncovered
\* requirements in input order, covered_count + |gaps| = total and the
\* percentage is covered_count / total * 100.
C23_CoveredIffBestAboveThreshold ==
    (call.fn = "check_completeness" /\ call.pc = "done") =>
        /\ Len(call.analysis) = Len(call.requirements)
        /\ \A i \in 1..Len(call.analysis) :
              LET a == call.analysis[i]
              IN  /\ a.requirement = call.requirements[i]
                  /\ a.covered <=>
                        /\ a.sources # << >>
                        /\ HighestSimilarity(a.sources) > 7
                  /\ a.sources = << >> => a.confidence = 0
        /\ call.gaps = Gaps(call.analysis)
        /\ call.covered_count + Len(call.gaps) = call.total_requirements
        /\ call.total_requirements = Len(call.requirements)
        /\ call.total_requirements > 0 =>
              call.completeness_percentage.num * call.total_requirements
                  = call.covered_count * 100 * call.completeness_percentage.den

====
